---------------------------- MODULE Spec2Model ----------------------------
(***************************************************************************)
(* Drive-to-Notion sync worker.                                            *)
(*                                                                         *)
(*   - the markdown converter (lib/markdown-to-blocks.ts): the mdast tree  *)
(*     of a document walked into an ordered sequence of Notion blocks;     *)
(*   - the Notion client (lib/notion.ts): createPage, updatePage,          *)
(*     getBlockChildren, deleteBlock, appendBlocksInBatches, one remote    *)
(*     call per step;                                                      *)
(*   - the orchestration loop runSync (index.ts);                          *)
(*   - the worker's handlers fetch and scheduled (index.ts), which start   *)
(*     runSync and may overlap;                                            *)
(*   - the recursive Drive traversal (lib/drive-traversal.ts), one step    *)
(*     per listFiles call and per listed file.                             *)
(*                                                                         *)
(* mdast nodes are records with a "type" field.  A Notion block            *)
(* {type: T, T: {rich_text, ...}} is the record [type |-> T, rich_text     *)
(* |-> ...]: the key test `"paragraph" in block` of the source is          *)
(* block.type = "paragraph".  An optional value is a sequence of length    *)
(* 0 or 1.                                                                 *)
(***************************************************************************)
EXTENDS Integers, Sequences, FiniteSets, TLC

VARIABLES
    root,       \* converter: root.children of the parsed document
    idx,        \* converter: number of root children the walker has visited
    emitted,    \* converter: per visited root child, what processBlock returned
    blocks,     \* converter: the result array of markdownToNotionBlocks
    cpc,        \* converter: "walk" | "done" | "off"
    drive,      \* Google Drive: the Google Docs of the shared drive, in listing order
    pages,      \* Notion: the pages of the database, each with its child blocks
    nextId,     \* Notion: the id the next created page or block gets
    failsLeft,  \* environment: remote calls that may still fail
    run,        \* per invocation of runSync: its locals and control position
    http,       \* fetch handler: the request, its control position, the response
    lst         \* listAllGoogleDocs: the folder tree, the call stack, the results

convVars == <<root, idx, emitted, blocks, cpc>>

syncVars == <<drive, pages, nextId, failsLeft, run, http, lst>>

vars == <<root, idx, emitted, blocks, cpc, drive, pages, nextId, failsLeft, run,
          http, lst>>

-----------------------------------------------------------------------------
(* Bounds of the model *)

MaxRootLen == 2
MaxQuoteLen == 3
MaxBlocks == 250
MaxFails == 1

\* Deepest nesting of inline wrappers in the paragraphs of the converter's inputs.
MaxNest == 3

\* Most files in the listing of the drive's root folder.
MaxListing == 2

\* Largest number of files in one response of files.list.
MaxPageSize == 2

-----------------------------------------------------------------------------
(* Sequence helpers *)

RECURSIVE FlattenRange(_, _, _)
\* ss[lo] \o ... \o ss[hi], split in halves.
FlattenRange(ss, lo, hi) ==
    IF lo > hi THEN <<>>
    ELSE IF lo = hi THEN ss[lo]
    ELSE LET mid == (lo + hi) \div 2
         IN  FlattenRange(ss, lo, mid) \o FlattenRange(ss, mid + 1, hi)

Flatten(ss) == FlattenRange(ss, 1, Len(ss))

SeqsUpTo(S, n) == UNION {[1..k -> S] : k \in 0..n}

Min(a, b) == IF a < b THEN a ELSE b

CeilDiv(a, b) == (a + b - 1) \div b

IsInfix(s, t) ==
    \E k \in 0..(Len(t) - Len(s)) : SubSeq(t, k + 1, k + Len(s)) = s

-----------------------------------------------------------------------------
(* Rich-text spans: lib/markdown-to-blocks.ts *)

\* The annotation literal of an unformatted span.
DefaultAnnotations ==
    [bold |-> FALSE, italic |-> FALSE, strikethrough |-> FALSE,
     underline |-> FALSE, code |-> FALSE, color |-> "default"]

\* A span with no link and default annotations.
PlainSpan(content) ==
    [type |-> "text", content |-> content, link |-> <<>>,
     annotations |-> DefaultAnnotations]

SpaceSpan == PlainSpan(" ")

NewlineSpan == PlainSpan("\n")

withBoldOnly(r) ==
    [r EXCEPT !.annotations = [DefaultAnnotations EXCEPT !.bold = TRUE]]

\* `{...r, annotations: {...r.annotations, bold: true}}`
withBold(r) == [r EXCEPT !.annotations.bold = TRUE]

\* `{...r, annotations: {...r.annotations, italic: true}}`
withItalic(r) == [r EXCEPT !.annotations.italic = TRUE]

\* `{...r, annotations: {...r.annotations, strikethrough: true}}`
withStrikethrough(r) == [r EXCEPT !.annotations.strikethrough = TRUE]

withLinkUnformatted(r, url) ==
    [r EXCEPT !.link = <<url>>, !.annotations = DefaultAnnotations]

\* `{...r, text: {content: r.text.content, link: {url: node.url}}}`
withLink(r, url) == [r EXCEPT !.link = <<url>>]

RECURSIVE phrasingToRichText(_)
RECURSIVE phrasingNodeToRichText(_)

\* One iteration of the for loop of phrasingToRichText: the spans pushed for a node.
phrasingNodeToRichText(node) ==
    CASE node.type = "text" -> <<PlainSpan(node.value)>>
      [] node.type = "strong" ->
            LET inner == phrasingToRichText(node.children)
            IN  [k \in 1..Len(inner) |->
                    withBold(inner[k])]
      [] node.type = "emphasis" ->
            LET inner == phrasingToRichText(node.children)
            IN  [k \in 1..Len(inner) |->
                    withItalic(inner[k])]
      [] node.type = "delete" ->
            LET inner == phrasingToRichText(node.children)
            IN  [k \in 1..Len(inner) |->
                    withStrikethrough(inner[k])]
      [] node.type = "inlineCode" ->
            <<[PlainSpan(node.value) EXCEPT !.annotations.code = TRUE]>>
      [] node.type = "link" ->
            LET inner == phrasingToRichText(node.children)
            IN  [k \in 1..Len(inner) |->
                    withLink(inner[k], node.url)]
      [] node.type = "break" -> <<NewlineSpan>>
      [] OTHER -> <<>>

phrasingToRichText(nodes) ==
    IF nodes = <<>> THEN <<>>
    ELSE phrasingNodeToRichText(Head(nodes)) \o phrasingToRichText(Tail(nodes))

RECURSIVE getPhrasingTextNoBreak(_)
getPhrasingTextNoBreak(nodes) ==
    IF nodes = <<>> THEN ""
    ELSE LET node == Head(nodes)
             here == CASE node.type = "text" -> node.value
                       [] node.type \in {"strong", "emphasis", "delete", "link"} ->
                             getPhrasingTextNoBreak(node.children)
                       [] node.type = "inlineCode" -> node.value
                       [] OTHER -> ""
         IN  here \o getPhrasingTextNoBreak(Tail(nodes))

RECURSIVE getPhrasingText(_)
getPhrasingText(nodes) ==
    IF nodes = <<>> THEN ""
    ELSE LET node == Head(nodes)
             here == CASE node.type = "text" -> node.value
                       [] node.type \in {"strong", "emphasis", "delete", "link"} ->
                             getPhrasingText(node.children)
                       [] node.type = "inlineCode" -> node.value
                       [] node.type = "break" -> "\n"
                       [] OTHER -> ""
         IN  here \o getPhrasingText(Tail(nodes))

RECURSIVE paragraphSpans(_)
\* The spans of every paragraph among a list item's children.
paragraphSpans(children) ==
    IF children = <<>> THEN <<>>
    ELSE (IF Head(children).type = "paragraph"
          THEN phrasingToRichText(Head(children).children) ELSE <<>>)
            \o paragraphSpans(Tail(children))

listItemAllParagraphs(item) == paragraphSpans(item.children)

listItemToRichText(item) ==
    IF Len(item.children) > 0 /\ item.children[1].type = "paragraph"
    THEN phrasingToRichText(item.children[1].children)
    ELSE phrasingToRichText(<<>>)

-----------------------------------------------------------------------------
(* Block Mapper: processBlock *)

\* `if (richText.length === 0) richText.push(<space span>)`
padIfEmpty(richText) == IF Len(richText) = 0 THEN <<SpaceSpan>> ELSE richText

BlankParagraph == [type |-> "paragraph", rich_text |-> <<SpaceSpan>>]

headingBlockTypeUnclamped(depth) ==
    CASE depth = 1 -> "heading_1"
      [] depth = 2 -> "heading_2"
      [] depth = 3 -> "heading_3"
      [] depth = 4 -> "heading_4"
      [] depth = 5 -> "heading_5"
      [] OTHER -> "heading_6"

\* The three returns that end the heading branch.
headingBlockType(depth) ==
    IF depth = 1 THEN "heading_1"
    ELSE IF depth = 2 THEN "heading_2"
    ELSE "heading_3"

quoteRichTextNoSlice(richTextParts) ==
    IF Len(richTextParts) > 0 THEN richTextParts ELSE <<SpaceSpan>>

\* `richTextParts.length > 0 ? richTextParts.slice(0, -1) : [<space span>]`
quoteRichText(richTextParts) ==
    IF Len(richTextParts) > 0
    THEN SubSeq(richTextParts, 1, Len(richTextParts) - 1)
    ELSE <<SpaceSpan>>

listItemBlockTypeBulleted(ordered) == "bulleted_list_item"

\* `if (list.ordered)` numbered_list_item, else bulleted_list_item.
listItemBlockType(ordered) ==
    IF ordered THEN "numbered_list_item" ELSE "bulleted_list_item"

RECURSIVE joinWith(_, _)
\* Array.prototype.join on strings.
joinWith(strs, sep) ==
    IF strs = <<>> THEN ""
    ELSE IF Len(strs) = 1 THEN strs[1]
    ELSE strs[1] \o sep \o joinWith(Tail(strs), sep)

tableTextCellsUnseparated(table) ==
    joinWith([r \in 1..Len(table.children) |->
                joinWith([c \in 1..Len(table.children[r].children) |->
                            getPhrasingText(table.children[r].children[c].children)],
                         "")],
             "\n")

tableText(table) ==
    joinWith([r \in 1..Len(table.children) |->
                joinWith([c \in 1..Len(table.children[r].children) |->
                            getPhrasingText(table.children[r].children[c].children)],
                         " | ")],
             "\n")

RECURSIVE processBlock(_)
RECURSIVE quoteParts(_)

\* The for loop of the blockquote branch: what it pushes onto richTextParts.
quoteParts(children) ==
    IF children = <<>> THEN <<>>
    ELSE LET child == Head(children)
             here ==
                IF child.type = "paragraph"
                THEN phrasingToRichText(child.children) \o <<NewlineSpan>>
                ELSE LET inner == processBlock(child)
                     IN  IF Len(inner) > 0 /\ inner[1].type = "paragraph"
                         THEN inner[1].rich_text
                         ELSE <<>>
         IN  here \o quoteParts(Tail(children))

processBlock(node) ==
    CASE node.type = "paragraph" ->
            <<[type |-> "paragraph",
               rich_text |-> padIfEmpty(phrasingToRichText(node.children))]>>
      [] node.type = "heading" ->
            <<[type |-> headingBlockType(node.depth),
               rich_text |-> padIfEmpty(phrasingToRichText(node.children))]>>
      [] node.type = "blockquote" ->
            <<[type |-> "quote",
               rich_text |-> quoteRichText(quoteParts(node.children))]>>
      [] node.type = "code" ->
            <<[type |-> "code",
               rich_text |-> <<PlainSpan(node.value)>>,
               language |-> IF node.lang = <<>> THEN "plain text" ELSE node.lang[1]]>>
      [] node.type = "list" ->
            [k \in 1..Len(node.children) |->
                [type |-> listItemBlockType(node.ordered),
                 rich_text |-> padIfEmpty(listItemToRichText(node.children[k]))]]
      [] node.type = "thematicBreak" -> <<[type |-> "divider"]>>
      [] node.type = "table" ->
            LET rows == tableText(node)
            IN  <<[type |-> "paragraph",
                   rich_text |-> <<PlainSpan(IF rows = "" THEN " " ELSE rows)>>]>>
      [] OTHER -> <<BlankParagraph>>

-----------------------------------------------------------------------------
(* Document Walker: markdownToNotionBlocks *)

\* Node kinds of the first two branches of the walker's loop.
WalkedTypes ==
    {"paragraph", "heading", "blockquote", "code", "list", "thematicBreak", "table"}

\* Node kinds of the third branch (`continue`).
SkippedTypes ==
    {"break", "emphasis", "strong", "delete", "inlineCode", "link", "image",
     "imageReference", "linkReference", "footnoteReference", "html",
     "definition", "footnoteDefinition"}

\* What one iteration of the walker's loop appends to blocks.
walkNode(node) ==
    IF node.type \in WalkedTypes THEN processBlock(node) ELSE <<>>

\* The whole function, on the parsed root's children.
markdownToNotionBlocks(children) ==
    Flatten([k \in 1..Len(children) |-> walkNode(children[k])])

-----------------------------------------------------------------------------
(* Input documents of the converter specification *)

Text(v) == [type |-> "text", value |-> v]
Image == [type |-> "image"]
Break == [type |-> "break"]
InlineCode(v) == [type |-> "inlineCode", value |-> v]
Strong(c) == [type |-> "strong", children |-> c]
Emphasis(c) == [type |-> "emphasis", children |-> c]
Delete(c) == [type |-> "delete", children |-> c]
Link(u, c) == [type |-> "link", url |-> u, children |-> c]
Paragraph(c) == [type |-> "paragraph", children |-> c]
Heading(d, c) == [type |-> "heading", depth |-> d, children |-> c]
Blockquote(c) == [type |-> "blockquote", children |-> c]
Code(v, l) == [type |-> "code", value |-> v, lang |-> l]
ListItem(c) == [type |-> "listItem", children |-> c]
List(o, c) == [type |-> "list", ordered |-> o, children |-> c]
ThematicBreak == [type |-> "thematicBreak"]
TableCell(c) == [type |-> "tableCell", children |-> c]
TableRow(c) == [type |-> "tableRow", children |-> c]
Table(c) == [type |-> "table", children |-> c]
Html == [type |-> "html", value |-> "<div>"]
Definition == [type |-> "definition"]
FootnoteDefinition == [type |-> "footnoteDefinition"]

UnsupportedTypes == {"html", "definition", "footnoteDefinition"}

PhrasingLists ==
    { <<>>, <<Text("a")>>, <<Image>>,
      <<Strong(<<Text("b")>>), Text("a")>>,
      <<Link("u", <<Emphasis(<<Text("a")>>)>>), Break, InlineCode("c")>> }

Paragraphs == {Paragraph(c) : c \in PhrasingLists}

Headings == {Heading(d, c) : d \in 1..6, c \in {<<Text("a")>>, <<Image>>}}

Lists ==
    {List(o, c) : o \in BOOLEAN,
                  c \in { <<>>,
                          <<ListItem(<<Paragraph(<<Text("a")>>)>>)>>,
                          <<ListItem(<<Paragraph(<<Text("a")>>),
                                       Paragraph(<<Text("b")>>)>>),
                            ListItem(<<Code("x", <<>>),
                                       Paragraph(<<Text("b")>>)>>)>>,
                          <<ListItem(<<Paragraph(<<Strong(<<Text("a")>>)>>),
                                       List(TRUE,
                                            <<ListItem(<<Paragraph(<<Text("n")>>)>>),
                                              ListItem(<<Paragraph(<<Text("m")>>)>>)>>),
                                       Code("x", <<>>)>>),
                            ListItem(<<>>),
                            ListItem(<<Paragraph(<<Image>>), Paragraph(<<Text("b")>>)>>)>> }}

Tables ==
    { Table(<<>>),
      Table(<<TableRow(<<TableCell(<<Image>>)>>)>>),
      Table(<<TableRow(<<TableCell(<<>>)>>), TableRow(<<TableCell(<<Text("e")>>)>>)>>),
      Table(<<TableRow(<<TableCell(<<Text("a"), InlineCode("c")>>),
                         TableCell(<<>>),
                         TableCell(<<Link("u", <<Text("l")>>), Break>>)>>)>>),
      Table(<<TableRow(<<TableCell(<<Text("a")>>), TableCell(<<Text("b")>>)>>),
              TableRow(<<TableCell(<<Strong(<<Text("c")>>)>>),
                         TableCell(<<Text("d")>>)>>)>>) }

LeafBlocks ==
    Paragraphs \cup Headings \cup Lists \cup Tables
        \cup {Code("x", <<>>), Code("x", <<"js">>), ThematicBreak,
              Html, Definition, FootnoteDefinition}

\* Children a blockquote is built from.
QuoteKids ==
    { Paragraph(<<Text("a")>>), Paragraph(<<Strong(<<Text("b")>>), Text("a")>>),
      Paragraph(<<Image>>),
      Heading(1, <<Text("h")>>), Code("x", <<>>),
      List(FALSE, <<ListItem(<<Paragraph(<<Text("i")>>)>>)>>),
      Table(<<TableRow(<<TableCell(<<Text("a")>>), TableCell(<<Text("b")>>)>>)>>),
      ThematicBreak, Html,
      Blockquote(<<Paragraph(<<Text("q")>>)>>) }

Blockquotes == {Blockquote(c) : c \in SeqsUpTo(QuoteKids, MaxQuoteLen)}

\* Phrasing nodes found directly under the root (malformed input).
StrayNodes == {Text("a"), Strong(<<Text("a")>>), Image, Break}

RootNodes == LeafBlocks \cup StrayNodes

PhrasingLeaves == {Text("a"), InlineCode("c"), Break, Image}

\* The inline wrappers around a list of children; links with two URLs.
Wrappers(c) == {Strong(c), Emphasis(c), Delete(c), Link("u", c), Link("v", c)}

RECURSIVE PhrasingNodes(_)
\* Inline nodes with wrappers nested at most d deep.
PhrasingNodes(d) ==
    IF d = 0 THEN PhrasingLeaves
    ELSE PhrasingLeaves
            \cup UNION {Wrappers(<<x>>) : x \in PhrasingNodes(d - 1)}
            \cup UNION {Wrappers(<<x, y>>) : x \in PhrasingLeaves, y \in PhrasingLeaves}

\* Paragraphs of nested inline formatting, alone and followed by a sibling.
NestedParagraphs ==
    {Paragraph(<<n>>) : n \in PhrasingNodes(MaxNest)}
        \cup {Paragraph(<<n, x>>) : n \in PhrasingNodes(1), x \in PhrasingLeaves}

RootDocs ==
    SeqsUpTo(RootNodes, MaxRootLen)
        \cup {<<q>> : q \in Blockquotes}
        \cup {<<Paragraph(<<Text("a")>>), q>> : q \in Blockquotes}
        \cup {<<p>> : p \in NestedParagraphs}
        \cup {<<Paragraph(<<n>>), Table(<<TableRow(<<TableCell(<<n>>)>>)>>)>> :
                n \in PhrasingNodes(MaxNest - 1)}

-----------------------------------------------------------------------------
(* Notion client and runSync: data *)

\* `const BLOCKS_PER_REQUEST = 100`
BLOCKS_PER_REQUEST == 100

\* `url.searchParams.set("page_size", "100")` of getBlockChildren
CHILDREN_PAGE_SIZE == 100

RunIds == {1, 2}

\* `return isoDate`
formatDateForNotion(isoDate) == isoDate

\* An entry of a run's log of the current doc: a remote call and whether
\* its response was ok, or a local event (skip, createPage, updatePage).
Ev(op, ok) == [op |-> op, ok |-> ok]

\* The locals of a runSync invocation that has not started.
IdleFrame ==
    [pc |-> "idle", docs |-> <<>>, i |-> 1, cur |-> 0,
     synced |-> 0, skipped |-> 0, failed |-> 0,
     existing |-> <<>>, mode |-> "none", driveModified |-> "",
     newBlocks |-> <<>>, pageId |-> 0,
     all |-> <<>>, cursor |-> <<>>, j |-> 1, off |-> 0,
     trace |-> <<>>, sent |-> <<>>, last |-> "none"]

OffFrame == [IdleFrame EXCEPT !.pc = "off"]

\* listAllGoogleDocs' result for a drive whose docs all sit in the root folder.
listAllGoogleDocs(drv) ==
    [k \in 1..Len(drv) |->
        [id |-> drv[k].id, name |-> drv[k].name,
         modifiedTime |-> drv[k].modifiedTime]]

\* exportAsMarkdown: the doc's content at the time of the call.
exportAsMarkdown(drv, fileId) ==
    LET k == CHOOSE n \in 1..Len(drv) : drv[n].id = fileId
    IN  drv[k].markdown

\* queryDatabaseByDriveId: `data.results[0] ?? null` of a query filtered on
\* Drive File ID with page_size 1.
queryDatabaseByDriveId(pgs, driveFileId) ==
    LET hits == {k \in 1..Len(pgs) : pgs[k].driveFileId = driveFileId}
    IN  IF hits = {} THEN <<>>
        ELSE LET k == CHOOSE n \in hits : \A o \in hits : n <= o
             IN  <<[id |-> pgs[k].id, driveModified |-> pgs[k].driveModified]>>

PageIndex(pgs, pageId) == CHOOSE k \in 1..Len(pgs) : pgs[k].id = pageId

PageById(pgs, pageId) == pgs[PageIndex(pgs, pageId)]

shouldSkipWhenStored(existing, driveModified) ==
    /\ existing # <<>>
    /\ existing[1].driveModified # <<>>

\* `existing` and `storedModified && storedModified === driveModified`
shouldSkip(existing, driveModified) ==
    /\ existing # <<>>
    /\ existing[1].driveModified # <<>>
    /\ existing[1].driveModified[1] # ""
    /\ existing[1].driveModified[1] = driveModified

\* One response of GET /blocks/{id}/children?page_size=100&start_cursor=c.
childrenResponse(children, cursor) ==
    LET start == IF cursor = <<>> THEN 1
                 ELSE CHOOSE k \in 1..Len(children) : children[k].id = cursor[1]
        stop == Min(start + CHILDREN_PAGE_SIZE - 1, Len(children))
        more == stop < Len(children)
    IN  [results |-> [k \in 1..(stop - start + 1) |-> children[start + k - 1].id],
         has_more |-> more,
         next_cursor |-> IF more THEN <<children[stop + 1].id>> ELSE <<>>]

cursorFirstPageOnly(data) == <<>>

\* `cursor = data.has_more ? data.next_cursor : null`
nextCursor(data) == IF data.has_more THEN data.next_cursor ELSE <<>>

batchOfOneMore(blks, i) ==
    SubSeq(blks, i + 1, Min(i + BLOCKS_PER_REQUEST + 1, Len(blks)))

\* `blocks.slice(i, i + BLOCKS_PER_REQUEST)`
batchOf(blks, i) == SubSeq(blks, i + 1, Min(i + BLOCKS_PER_REQUEST, Len(blks)))

\* updatePage after the delete loop: `if (blocks.length > 0)` append, else
\* the property update.
pcAfterDeletes(f) == IF Len(f.newBlocks) > 0 THEN "append" ELSE "updateProp"

pcAfterDeleteStopsEarly(f, j) ==
    IF j <= 1 /\ j <= Len(f.all) THEN "delete" ELSE pcAfterDeletes(f)

\* `for (const block of existingBlocks)`: the next step after j - 1 deletes.
pcAfterDelete(f, j) == IF j <= Len(f.all) THEN "delete" ELSE pcAfterDeletes(f)

\* The frame when the current doc ends with `outcome`: the counter moves,
\* the for loop of runSync goes to the next doc or returns.
FinishDoc(f, outcome) ==
    [f EXCEPT !.synced = IF outcome \in {"created", "updated"} THEN @ + 1 ELSE @,
              !.skipped = IF outcome = "skipped" THEN @ + 1 ELSE @,
              !.failed = IF outcome = "failed" THEN @ + 1 ELSE @,
              !.last = outcome,
              !.i = @ + 1,
              !.pc = IF f.i + 1 > Len(f.docs) THEN "done" ELSE "query"]

Log(f, ev) == [f EXCEPT !.trace = Append(@, ev)]

-----------------------------------------------------------------------------
(* Notion client and runSync: steps, one per remote call *)

\* runSync up to its for loop: token, listing, counters.
RunStart(r) ==
    /\ run[r].pc = "idle"
    /\ LET docs == listAllGoogleDocs(drive)
       IN  run' = [run EXCEPT ![r] =
                     [@ EXCEPT !.docs = docs,
                               !.i = 1,
                               !.pc = IF Len(docs) = 0 THEN "done" ELSE "query"]]
    /\ UNCHANGED <<drive, pages, nextId, failsLeft, convVars, http, lst>>

QuerySkipRewritesDate(r) ==
    /\ run[r].pc = "query"
    /\ LET f == run[r]
           doc == f.docs[f.i]
           existing == queryDatabaseByDriveId(pages, doc.id)
       IN  /\ shouldSkip(existing, doc.modifiedTime)
           /\ pages' = [pages EXCEPT ![PageIndex(pages, existing[1].id)].driveModified =
                            <<formatDateForNotion(doc.modifiedTime)>>]
           /\ run' = [run EXCEPT ![r] =
                        FinishDoc([f EXCEPT !.cur = f.i,
                                            !.existing = existing,
                                            !.driveModified = doc.modifiedTime,
                                            !.mode = "none",
                                            !.sent = <<>>,
                                            !.trace = <<Ev("query", TRUE),
                                                        Ev("updateProp", TRUE),
                                                        Ev("skip", TRUE)>>],
                                  "skipped")]
    /\ UNCHANGED <<drive, nextId, failsLeft, convVars, http, lst>>

\* The query answers and the stored Drive Modified equals the doc's: skip.
QuerySkip(r) ==
    /\ run[r].pc = "query"
    /\ LET f == run[r]
           doc == f.docs[f.i]
           existing == queryDatabaseByDriveId(pages, doc.id)
       IN  /\ shouldSkip(existing, doc.modifiedTime)
           /\ run' = [run EXCEPT ![r] =
                        FinishDoc([f EXCEPT !.cur = f.i,
                                            !.existing = existing,
                                            !.driveModified = doc.modifiedTime,
                                            !.mode = "none",
                                            !.sent = <<>>,
                                            !.trace = <<Ev("query", TRUE),
                                                        Ev("skip", TRUE)>>],
                                  "skipped")]
    /\ UNCHANGED <<drive, pages, nextId, failsLeft, convVars, http, lst>>

\* The query answers and the doc is new or changed: go on to the export.
QueryProceed(r) ==
    /\ run[r].pc = "query"
    /\ LET f == run[r]
           doc == f.docs[f.i]
           existing == queryDatabaseByDriveId(pages, doc.id)
       IN  /\ ~shouldSkip(existing, doc.modifiedTime)
           /\ run' = [run EXCEPT ![r] =
                        [f EXCEPT !.cur = f.i,
                                  !.existing = existing,
                                  !.driveModified = doc.modifiedTime,
                                  !.mode = "none",
                                  !.sent = <<>>,
                                  !.trace = <<Ev("query", TRUE)>>,
                                  !.pc = "export"]]
    /\ UNCHANGED <<drive, pages, nextId, failsLeft, convVars, http, lst>>

\* The export answers and a page exists: updatePage converts the markdown
\* and requests the first page of the existing children.
ExportThenUpdate(r) ==
    /\ run[r].pc = "export"
    /\ run[r].existing # <<>>
    /\ LET f == run[r]
           markdown == exportAsMarkdown(drive, f.docs[f.i].id)
       IN  run' = [run EXCEPT ![r] =
                     [f EXCEPT !.mode = "update",
                               !.newBlocks = markdownToNotionBlocks(markdown),
                               !.pageId = f.existing[1].id,
                               !.all = <<>>,
                               !.cursor = <<>>,
                               !.off = 0,
                               !.trace = @ \o <<Ev("export", TRUE),
                                                Ev("updatePage", TRUE)>>,
                               !.pc = "getChildren"]]
    /\ UNCHANGED <<drive, pages, nextId, failsLeft, convVars, http, lst>>

\* The export answers and no page exists: createPage converts the markdown
\* and posts the page.
ExportThenCreate(r) ==
    /\ run[r].pc = "export"
    /\ run[r].existing = <<>>
    /\ LET f == run[r]
           markdown == exportAsMarkdown(drive, f.docs[f.i].id)
       IN  run' = [run EXCEPT ![r] =
                     [f EXCEPT !.mode = "create",
                               !.newBlocks = markdownToNotionBlocks(markdown),
                               !.all = <<>>,
                               !.cursor = <<>>,
                               !.off = 0,
                               !.trace = @ \o <<Ev("export", TRUE),
                                                Ev("createPage", TRUE)>>,
                               !.pc = "create"]]
    /\ UNCHANGED <<drive, pages, nextId, failsLeft, convVars, http, lst>>

\* createPage: POST /pages answers; then the first batch, or return.
CreatePage(r) ==
    /\ run[r].pc = "create"
    /\ LET f == run[r]
           page == [id |-> nextId,
                    driveFileId |-> f.docs[f.i].id,
                    driveModified |-> <<formatDateForNotion(f.driveModified)>>,
                    children |-> <<>>]
           g == Log([f EXCEPT !.pageId = nextId], Ev("create", TRUE))
       IN  /\ pages' = Append(pages, page)
           /\ nextId' = nextId + 1
           /\ run' = [run EXCEPT ![r] =
                        IF Len(f.newBlocks) > 0
                        THEN [g EXCEPT !.pc = "append"]
                        ELSE FinishDoc(g, "created")]
    /\ UNCHANGED <<drive, failsLeft, convVars, http, lst>>

\* getBlockChildren: one iteration of the do-while loop.
GetChildren(r) ==
    /\ run[r].pc = "getChildren"
    /\ LET f == run[r]
           page == PageById(pages, f.pageId)
       IN  /\ f.cursor # <<>> => \E k \in 1..Len(page.children) :
                                    page.children[k].id = f.cursor[1]
           /\ LET data == childrenResponse(page.children, f.cursor)
                  cursor == nextCursor(data)
                  g == Log([f EXCEPT !.all = @ \o data.results,
                                     !.cursor = cursor,
                                     !.j = 1],
                           Ev("getChildren", TRUE))
              IN  run' = [run EXCEPT ![r] =
                            [g EXCEPT !.pc = IF cursor # <<>> THEN "getChildren"
                                             ELSE pcAfterDelete(g, 1)]]
    /\ UNCHANGED <<drive, pages, nextId, failsLeft, convVars, http, lst>>

\* updatePage: deleteBlock of the next existing block answers.
DeleteBlock(r) ==
    /\ run[r].pc = "delete"
    /\ LET f == run[r]
           p == PageIndex(pages, f.pageId)
           kids == pages[p].children
           id == f.all[f.j]
           g == Log([f EXCEPT !.j = @ + 1], Ev("delete", TRUE))
       IN  /\ \E k \in 1..Len(kids) : kids[k].id = id
           /\ pages' = [pages EXCEPT ![p].children =
                            SelectSeq(kids, LAMBDA c : c.id # id)]
           /\ run' = [run EXCEPT ![r] =
                        [g EXCEPT !.pc = pcAfterDelete(g, g.j)]]
    /\ UNCHANGED <<drive, nextId, failsLeft, convVars, http, lst>>

\* appendBlocksInBatches: one iteration of the for loop, the PATCH answers.
AppendBatch(r) ==
    /\ run[r].pc = "append"
    /\ LET f == run[r]
           p == PageIndex(pages, f.pageId)
           batch == batchOf(f.newBlocks, f.off)
           g == Log([f EXCEPT !.off = @ + BLOCKS_PER_REQUEST,
                              !.sent = Append(@, batch)],
                    Ev("append", TRUE))
       IN  /\ pages' = [pages EXCEPT ![p].children =
                            @ \o [k \in 1..Len(batch) |->
                                    [id |-> nextId + k - 1, block |-> batch[k]]]]
           /\ nextId' = nextId + Len(batch)
           /\ run' = [run EXCEPT ![r] =
                        IF g.off < Len(g.newBlocks) THEN g
                        ELSE IF g.mode = "update" THEN [g EXCEPT !.pc = "updateProp"]
                        ELSE FinishDoc(g, "created")]
    /\ UNCHANGED <<drive, failsLeft, convVars, http, lst>>

\* updatePage: PATCH /pages/{id} of Drive Modified answers.
UpdateProp(r) ==
    /\ run[r].pc = "updateProp"
    /\ LET f == run[r]
           p == PageIndex(pages, f.pageId)
       IN  /\ pages' = [pages EXCEPT ![p].driveModified =
                            <<formatDateForNotion(f.driveModified)>>]
           /\ run' = [run EXCEPT ![r] =
                        FinishDoc(Log(f, Ev("updateProp", TRUE)), "updated")]
    /\ UNCHANGED <<drive, nextId, failsLeft, convVars, http, lst>>

CallFailsEndsRun(r) ==
    /\ run[r].pc \in {"query", "export", "create", "getChildren", "delete",
                      "updateProp"}
    /\ failsLeft > 0
    /\ failsLeft' = failsLeft - 1
    /\ LET f == run[r]
           g == IF f.pc = "query"
                THEN [f EXCEPT !.cur = f.i,
                               !.existing = <<>>,
                               !.driveModified = f.docs[f.i].modifiedTime,
                               !.mode = "none",
                               !.sent = <<>>,
                               !.trace = <<Ev("query", FALSE)>>]
                ELSE Log(f, Ev(f.pc, FALSE))
       IN  run' = [run EXCEPT ![r] = [FinishDoc(g, "failed") EXCEPT !.pc = "done"]]
    /\ UNCHANGED <<drive, pages, nextId, convVars, http, lst>>

AppendFailsSwallowed(r) ==
    /\ run[r].pc = "append"
    /\ failsLeft > 0
    /\ failsLeft' = failsLeft - 1
    /\ LET f == run[r]
           g == Log([f EXCEPT !.off = @ + BLOCKS_PER_REQUEST,
                              !.sent = Append(@, batchOf(f.newBlocks, f.off))],
                    Ev("append", FALSE))
       IN  run' = [run EXCEPT ![r] =
                        IF g.off < Len(g.newBlocks) THEN g
                        ELSE IF g.mode = "update" THEN [g EXCEPT !.pc = "updateProp"]
                        ELSE FinishDoc(g, "created")]
    /\ UNCHANGED <<drive, pages, nextId, convVars, http, lst>>

\* appendBlocksInBatches: the PATCH of a batch is not ok; the Error thrown
\* leaves the loop and the caller and is caught by runSync's per-doc catch.
AppendFails(r) ==
    /\ run[r].pc = "append"
    /\ failsLeft > 0
    /\ failsLeft' = failsLeft - 1
    /\ LET f == run[r]
           g == Log([f EXCEPT !.sent = Append(@, batchOf(f.newBlocks, f.off))],
                    Ev("append", FALSE))
       IN  run' = [run EXCEPT ![r] = FinishDoc(g, "failed")]
    /\ UNCHANGED <<drive, pages, nextId, convVars, http, lst>>

\* Any other remote call of the current doc is not ok: the Error thrown is
\* caught by runSync's per-doc catch.
CallFails(r) ==
    /\ run[r].pc \in {"query", "export", "create", "getChildren", "delete",
                      "updateProp"}
    /\ failsLeft > 0
    /\ failsLeft' = failsLeft - 1
    /\ LET f == run[r]
           g == IF f.pc = "query"
                THEN [f EXCEPT !.cur = f.i,
                               !.existing = <<>>,
                               !.driveModified = f.docs[f.i].modifiedTime,
                               !.mode = "none",
                               !.sent = <<>>,
                               !.trace = <<Ev("query", FALSE)>>]
                ELSE Log(f, Ev(f.pc, FALSE))
       IN  run' = [run EXCEPT ![r] = FinishDoc(g, "failed")]
    /\ UNCHANGED <<drive, pages, nextId, convVars, http, lst>>

-----------------------------------------------------------------------------
(* The worker's handlers: fetch and scheduled (index.ts) *)

\* The runSync invocation of a GET /sync request, and of a cron trigger.
FetchRun == 1
ScheduledRun == 2

\* The text of the fallback response.
InfoText ==
    "Drive-to-Notion sync. Endpoints: GET /sync, GET /debug-drive (verify drive), GET /debug-drive-list (list accessible drives)."

NoBody == [ok |-> <<>>, text |-> "", result |-> <<>>]

\* The handler before a request: no response, no call made.
NoRequest ==
    [pc |-> "none", path |-> "", admin |-> FALSE, status |-> 0,
     contentType |-> "", body |-> NoBody, tokenCalls |-> 0, driveCalls |-> 0]

\* `new Response(body, {status, headers: {"Content-Type": contentType}})`
Respond(h, status, contentType, body) ==
    [h EXCEPT !.pc = "responded", !.status = status,
              !.contentType = contentType, !.body = body]

JsonOk(text, result) == [ok |-> <<TRUE>>, text |-> text, result |-> result]

\* `JSON.stringify({ ok: false, error: message })` with status 500.
RespondError(h) ==
    Respond(h, 500, "application/json",
            [ok |-> <<FALSE>>, text |-> "error", result |-> <<>>])

HasPrefix(str, prefix) ==
    /\ Len(str) >= Len(prefix)
    /\ SubSeq(str, 1, Len(prefix)) = prefix

routeOfByPrefix(pathname) ==
    CASE HasPrefix(pathname, "/debug-drive-list") -> "debugDriveList"
      [] HasPrefix(pathname, "/debug-drive") -> "debugDrive"
      [] HasPrefix(pathname, "/sync") -> "sync"
      [] OTHER -> "info"

\* The chain of `if (url.pathname === ...)` of fetch.
routeOf(pathname) ==
    CASE pathname = "/debug-drive-list" -> "debugDriveList"
      [] pathname = "/debug-drive" -> "debugDrive"
      [] pathname = "/sync" -> "sync"
      [] OTHER -> "info"

\* Paths of the requests: the three routes and paths that are none of them.
Paths ==
    {"/sync", "/debug-drive", "/debug-drive-list",
     "/", "/sync/", "/debug-drive-lists", "/favicon.ico"}

\* A request arrives; its query string may carry useDomainAdmin=true.
Request ==
    /\ http.pc = "none"
    /\ \E path \in Paths, admin \in BOOLEAN :
            http' = [NoRequest EXCEPT !.pc = "route", !.path = path,
                                      !.admin = admin]
    /\ UNCHANGED <<drive, pages, nextId, failsLeft, run, convVars, lst>>

\* No route matches: the fixed text.
FetchInfo ==
    /\ http.pc = "route"
    /\ routeOf(http.path) = "info"
    /\ http' = Respond(http, 200, "text/plain",
                       [ok |-> <<>>, text |-> InfoText, result |-> <<>>])
    /\ UNCHANGED <<drive, pages, nextId, failsLeft, run, convVars, lst>>

\* /debug-drive-list and /debug-drive: parseServiceAccountJson and
\* getAccessToken; a throw goes to the route's catch.
FetchToken ==
    /\ http.pc = "route"
    /\ routeOf(http.path) \in {"debugDriveList", "debugDrive"}
    /\ \E ok \in BOOLEAN :
            LET h == [http EXCEPT !.tokenCalls = @ + 1]
            IN  http' = IF ~ok THEN RespondError(h)
                        ELSE [h EXCEPT !.pc =
                                IF routeOf(http.path) = "debugDriveList"
                                THEN "listDrives" ELSE "getDrive"]
    /\ UNCHANGED <<drive, pages, nextId, failsLeft, run, convVars, lst>>

\* /debug-drive-list: listDrives answers or throws.
FetchListDrives ==
    /\ http.pc = "listDrives"
    /\ \E ok \in BOOLEAN :
            LET h == [http EXCEPT !.driveCalls = @ + 1]
            IN  http' = IF ok
                        THEN Respond(h, 200, "application/json", JsonOk("drives", <<>>))
                        ELSE RespondError(h)
    /\ UNCHANGED <<drive, pages, nextId, failsLeft, run, convVars, lst>>

\* /debug-drive: the first getDriveMetadata answers, or throws; the throw
\* is retried with useDomainAdminAccess unless the request asked for it.
FetchGetDrive ==
    /\ http.pc = "getDrive"
    /\ \E ok \in BOOLEAN :
            LET h == [http EXCEPT !.driveCalls = @ + 1]
            IN  http' = IF ok
                        THEN Respond(h, 200, "application/json",
                                     JsonOk("Drive accessible. Impersonation and shared drive access OK.", <<>>))
                        ELSE IF ~http.admin THEN [h EXCEPT !.pc = "getDriveAdmin"]
                        ELSE RespondError(h)
    /\ UNCHANGED <<drive, pages, nextId, failsLeft, run, convVars, lst>>

\* /debug-drive: the retry answers, or throws and the first error is rethrown.
FetchGetDriveAdmin ==
    /\ http.pc = "getDriveAdmin"
    /\ \E ok \in BOOLEAN :
            LET h == [http EXCEPT !.driveCalls = @ + 1]
            IN  http' = IF ok
                        THEN Respond(h, 200, "application/json",
                                     JsonOk("Drive accessible with useDomainAdminAccess=true.", <<>>))
                        ELSE RespondError(h)
    /\ UNCHANGED <<drive, pages, nextId, failsLeft, run, convVars, lst>>

\* /sync: runSync(env) is called.
FetchSync ==
    /\ http.pc = "route"
    /\ routeOf(http.path) = "sync"
    /\ run[FetchRun].pc = "off"
    /\ http' = [http EXCEPT !.pc = "sync"]
    /\ run' = [run EXCEPT ![FetchRun] = IdleFrame]
    /\ UNCHANGED <<drive, pages, nextId, failsLeft, convVars, lst>>

\* /sync: runSync returned its counters.
FetchSyncReturns ==
    /\ http.pc = "sync"
    /\ run[FetchRun].pc = "done"
    /\ LET f == run[FetchRun]
       IN  http' = Respond(http, 200, "application/json",
                           JsonOk("Sync complete",
                                  <<[synced |-> f.synced, skipped |-> f.skipped,
                                     failed |-> f.failed]>>))
    /\ UNCHANGED <<drive, pages, nextId, failsLeft, run, convVars, lst>>

\* /sync: runSync threw before its loop.
FetchSyncThrows ==
    /\ http.pc = "sync"
    /\ run[FetchRun].pc = "threw"
    /\ http' = RespondError(http)
    /\ UNCHANGED <<drive, pages, nextId, failsLeft, run, convVars, lst>>

\* The cron trigger: ctx.waitUntil(runSync(env)...).
Scheduled ==
    /\ run[ScheduledRun].pc = "off"
    /\ run' = [run EXCEPT ![ScheduledRun] = IdleFrame]
    /\ UNCHANGED <<drive, pages, nextId, failsLeft, convVars, http, lst>>

\* runSync before its loop: the credentials, the token request or the
\* listing throws; no catch in runSync, the caller gets the Error.
RunStartThrows(r) ==
    /\ run[r].pc = "idle"
    /\ run' = [run EXCEPT ![r].pc = "threw"]
    /\ UNCHANGED <<drive, pages, nextId, failsLeft, convVars, http, lst>>

\* deleteBlock of a block that another run has already deleted: Notion
\* answers ok or with an error.
DeleteGone(r) ==
    /\ run[r].pc = "delete"
    /\ LET f == run[r]
           kids == PageById(pages, f.pageId).children
           id == f.all[f.j]
       IN  /\ \A k \in 1..Len(kids) : kids[k].id # id
           /\ \E ok \in BOOLEAN :
                LET g == Log([f EXCEPT !.j = @ + 1], Ev("delete", ok))
                IN  run' = [run EXCEPT ![r] =
                              IF ok THEN [g EXCEPT !.pc = pcAfterDelete(g, g.j)]
                              ELSE FinishDoc(Log(f, Ev("delete", FALSE)), "failed")]
    /\ UNCHANGED <<drive, pages, nextId, failsLeft, convVars, http, lst>>

-----------------------------------------------------------------------------
(* Recursive Drive traversal: lib/drive-traversal.ts *)

GOOGLE_DOC_MIME == "application/vnd.google-apps.document"
FOLDER_MIME == "application/vnd.google-apps.folder"
SHEET_MIME == "application/vnd.google-apps.spreadsheet"

\* A file of a files.list response; modifiedTime may be missing.
DriveFile(id, mimeType, modifiedTime) ==
    [id |-> id, name |-> id, mimeType |-> mimeType, modifiedTime |-> modifiedTime]

\* The listing before listAllGoogleDocs is called.
NoListing ==
    [pc |-> "off", tree |-> <<>>, pageSize |-> 1, emptyFirst |-> FALSE,
     stack |-> <<>>, results |-> <<>>, requests |-> <<>>]

\* The pages Drive cuts a folder's files into: pageSize files each, after
\* an empty first page when emptyFirst; at least one page.
PagesOfFolder(files, pageSize, emptyFirst) ==
    LET n == CeilDiv(Len(files), pageSize)
        cut == [k \in 1..n |->
                    SubSeq(files, (k - 1) * pageSize + 1,
                           Min(k * pageSize, Len(files)))]
    IN  IF emptyFirst \/ n = 0 THEN <<<<>>>> \o cut ELSE cut

\* listFiles: the response for a folder and a page token (none for the
\* first page, <<k>> for page k).
listFiles(l, folderId, pageToken) ==
    LET pgs == PagesOfFolder(l.tree[folderId], l.pageSize, l.emptyFirst)
        k == IF pageToken = <<>> THEN 1 ELSE pageToken[1]
    IN  [files |-> pgs[k],
         nextPageToken |-> IF k < Len(pgs) THEN <<k + 1>> ELSE <<>>]

keepsEveryNonFolder(file) == file.mimeType # FOLDER_MIME

\* `file.mimeType === GOOGLE_DOC_MIME`
keepsFile(file) == file.mimeType = GOOGLE_DOC_MIME

\* The GoogleDocInfo pushed for a file: `modifiedTime: file.modifiedTime ?? ""`.
GoogleDocInfo(file) ==
    [id |-> file.id, name |-> file.name,
     modifiedTime |-> IF file.modifiedTime = <<>> THEN "" ELSE file.modifiedTime[1]]

\* A frame of listFilesRecursive about to call listFiles.
ListFrame(folderId, pageToken) ==
    [folderId |-> folderId, pageToken |-> pageToken, at |-> "request",
     files |-> <<>>, pos |-> 1, nextPageToken |-> <<>>]

TopFrame == lst.stack[Len(lst.stack)]

SetTop(frame) == [lst.stack EXCEPT ![Len(lst.stack)] = frame]

\* The top frame is inside `for (const file of response.files)` at a file.
AtFile ==
    /\ lst.pc = "run"
    /\ TopFrame.at = "files"
    /\ TopFrame.pos <= Len(TopFrame.files)

\* listAllGoogleDocs is called: results = [], listFilesRecursive on the root.
ListStart ==
    /\ lst.pc = "idle"
    /\ lst' = [lst EXCEPT !.pc = "run", !.stack = <<ListFrame("root", <<>>)>>]
    /\ UNCHANGED <<drive, pages, nextId, failsLeft, run, http, convVars>>

\* `const response = await listFiles(...)` answers.
ListFilesAnswers ==
    /\ lst.pc = "run"
    /\ TopFrame.at = "request"
    /\ LET f == TopFrame
           response == listFiles(lst, f.folderId, f.pageToken)
       IN  lst' = [lst EXCEPT
                     !.requests = Append(@, <<f.folderId, f.pageToken>>),
                     !.stack = SetTop([f EXCEPT !.at = "files",
                                                !.files = response.files,
                                                !.pos = 1,
                                                !.nextPageToken = response.nextPageToken])]
    /\ UNCHANGED <<drive, pages, nextId, failsLeft, run, http, convVars>>

\* listFiles throws (response not ok): the Error leaves every frame.
ListFilesThrows ==
    /\ lst.pc = "run"
    /\ TopFrame.at = "request"
    /\ lst' = [lst EXCEPT !.pc = "threw",
                          !.requests = Append(@, <<TopFrame.folderId, TopFrame.pageToken>>),
                          !.stack = <<>>]
    /\ UNCHANGED <<drive, pages, nextId, failsLeft, run, http, convVars>>

\* Loop body, first branch: a Google Doc is pushed to results.
PushDoc ==
    /\ AtFile
    /\ LET f == TopFrame
           file == f.files[f.pos]
       IN  /\ keepsFile(file)
           /\ lst' = [lst EXCEPT !.results = Append(@, GoogleDocInfo(file)),
                                  !.stack = SetTop([f EXCEPT !.pos = @ + 1])]
    /\ UNCHANGED <<drive, pages, nextId, failsLeft, run, http, convVars>>

\* Loop body, second branch: listFilesRecursive on a folder.
Recurse ==
    /\ AtFile
    /\ LET f == TopFrame
           file == f.files[f.pos]
       IN  /\ ~keepsFile(file)
           /\ file.mimeType = FOLDER_MIME
           /\ lst' = [lst EXCEPT !.stack =
                        Append(SetTop([f EXCEPT !.pos = @ + 1]),
                               ListFrame(file.id, <<>>))]
    /\ UNCHANGED <<drive, pages, nextId, failsLeft, run, http, convVars>>

\* Loop body, neither branch: the file is ignored.
IgnoreFile ==
    /\ AtFile
    /\ LET f == TopFrame
           file == f.files[f.pos]
       IN  /\ ~keepsFile(file)
           /\ file.mimeType # FOLDER_MIME
           /\ lst' = [lst EXCEPT !.stack = SetTop([f EXCEPT !.pos = @ + 1])]
    /\ UNCHANGED <<drive, pages, nextId, failsLeft, run, http, convVars>>

\* `pageToken = response.nextPageToken; while (pageToken)`: another page.
NextPage ==
    /\ lst.pc = "run"
    /\ TopFrame.at = "files"
    /\ TopFrame.pos > Len(TopFrame.files)
    /\ TopFrame.nextPageToken # <<>>
    /\ lst' = [lst EXCEPT !.stack =
                    SetTop(ListFrame(TopFrame.folderId, TopFrame.nextPageToken))]
    /\ UNCHANGED <<drive, pages, nextId, failsLeft, run, http, convVars>>

\* No nextPageToken: listFilesRecursive returns; from the root frame,
\* listAllGoogleDocs returns results.
ListReturn ==
    /\ lst.pc = "run"
    /\ TopFrame.at = "files"
    /\ TopFrame.pos > Len(TopFrame.files)
    /\ TopFrame.nextPageToken = <<>>
    /\ lst' = [lst EXCEPT !.stack = SubSeq(@, 1, Len(@) - 1),
                          !.pc = IF Len(lst.stack) = 1 THEN "done" ELSE "run"]
    /\ UNCHANGED <<drive, pages, nextId, failsLeft, run, http, convVars>>

\* Sequences over S of length at most n in which no element occurs twice.
DistinctSeqsUpTo(S, n) ==
    {q \in SeqsUpTo(S, n) : \A a, b \in 1..Len(q) : q[a] = q[b] => a = b}

DocA == DriveFile("a", GOOGLE_DOC_MIME, <<"t1">>)
DocB == DriveFile("b", GOOGLE_DOC_MIME, <<"t2">>)
DocC == DriveFile("c", GOOGLE_DOC_MIME, <<>>)
DocD == DriveFile("d", GOOGLE_DOC_MIME, <<"t1">>)
Sheet == DriveFile("s", SHEET_MIME, <<"t1">>)
FolderF1 == DriveFile("f1", FOLDER_MIME, <<"t1">>)
FolderF2 == DriveFile("f2", FOLDER_MIME, <<"t1">>)

\* Folder trees: f1 may sit in the root, f2 in f1; doc a may have two
\* parents; a folder not listed by its parent is unreachable.
FolderTrees ==
    {[root |-> r, f1 |-> x, f2 |-> y] :
        r \in DistinctSeqsUpTo({DocA, DocB, Sheet, FolderF1}, MaxListing),
        x \in DistinctSeqsUpTo({DocA, DocC, FolderF2}, 2),
        y \in {<<>>, <<DocD>>, <<Sheet, DocD, DocB>>}}

InitList ==
    /\ \E t \in FolderTrees, ps \in 1..MaxPageSize, e \in BOOLEAN :
            lst = [NoListing EXCEPT !.pc = "idle", !.tree = t, !.pageSize = ps,
                                    !.emptyFirst = e]
    /\ root = <<>>
    /\ idx = 0
    /\ emitted = <<>>
    /\ blocks = <<>>
    /\ cpc = "off"
    /\ drive = <<>>
    /\ pages = <<>>
    /\ nextId = 1
    /\ failsLeft = 0
    /\ run = [r \in RunIds |-> OffFrame]
    /\ http = NoRequest

NextList ==
    \/ ListStart
    \/ ListFilesAnswers
    \/ ListFilesThrows
    \/ PushDoc
    \/ Recurse
    \/ IgnoreFile
    \/ NextPage
    \/ ListReturn

\* The awaited calls answer or throw: a listing that can step does step.
SpecList == InitList /\ [][NextList]_vars /\ WF_vars(NextList)

-----------------------------------------------------------------------------
(* Initial states of the sync specification *)

\* The root of a document of n blocks, one block per root child, whose
\* text is v.
DocOf(n, v) ==
    [k \in 1..n |->
        CASE k % 4 = 1 -> Paragraph(<<Text(v)>>)
          [] k % 4 = 2 -> Heading((k % 6) + 1, <<Strong(<<Text(v)>>)>>)
          [] k % 4 = 3 -> Code(v, <<>>)
          [] OTHER -> ThematicBreak]

DriveDoc(id, t, md) == [id |-> id, name |-> id, modifiedTime |-> t, markdown |-> md]

\* A page as an earlier sync (or a user) left it: children with ids from
\* firstId on.
PageOf(id, driveFileId, stored, blks, firstId) ==
    [id |-> id, driveFileId |-> driveFileId, driveModified |-> stored,
     children |-> [k \in 1..Len(blks) |-> [id |-> firstId + k - 1, block |-> blks[k]]]]

\* A page of another Drive file, first in the database.
OtherPage == PageOf(1, "d0", <<"t1">>, markdownToNotionBlocks(DocOf(1, "z")), 2)

NewSizes == {0, 1, BLOCKS_PER_REQUEST, BLOCKS_PER_REQUEST + 1, MaxBlocks}

OldSizes == {0, 1, CHILDREN_PAGE_SIZE, CHILDREN_PAGE_SIZE + 1,
             2 * CHILDREN_PAGE_SIZE + 1}

StoredTimes == {<<>>, <<"t1">>, <<"t2">>}

\* One large doc: no page yet, or a page with old content.
LargeWorlds ==
    {[drive |-> <<DriveDoc("d1", "t1", DocOf(n, "new"))>>,
      pages |-> <<OtherPage>>, nextId |-> 3] : n \in 0..MaxBlocks}
    \cup
    {[drive |-> <<DriveDoc("d1", "t1", DocOf(n, "new"))>>,
      pages |-> <<OtherPage,
                  PageOf(3, "d1", st, markdownToNotionBlocks(DocOf(m, "old")), 4)>>,
      nextId |-> 4 + m] : n \in NewSizes, m \in OldSizes, st \in StoredTimes}

SmallPages(id, driveFileId, firstId) ==
    {<<>>} \cup
    {<<PageOf(id, driveFileId, st, markdownToNotionBlocks(DocOf(m, "old")), firstId)>> :
        st \in StoredTimes, m \in 0..1}

\* Two small docs, each with or without a page.
SmallWorlds ==
    {[drive |-> <<DriveDoc("d1", "t1", DocOf(n1, "new")),
                  DriveDoc("d2", "t2", DocOf(n2, "new"))>>,
      pages |-> <<OtherPage>> \o p1 \o p2, nextId |-> 7] :
        n1 \in 0..2, n2 \in 0..1,
        p1 \in SmallPages(3, "d1", 4), p2 \in SmallPages(5, "d2", 6)}

SyncWorlds == LargeWorlds \cup SmallWorlds

InitSync ==
    /\ \E w \in SyncWorlds :
            /\ drive = w.drive
            /\ pages = w.pages
            /\ nextId = w.nextId
    /\ failsLeft = MaxFails
    /\ run = [r \in RunIds |-> IF r = 1 THEN IdleFrame ELSE OffFrame]
    /\ http = NoRequest
    /\ lst = NoListing
    /\ root = <<>>
    /\ idx = 0
    /\ emitted = <<>>
    /\ blocks = <<>>
    /\ cpc = "off"

NextSync ==
    \E r \in RunIds :
        \/ RunStart(r)
        \/ QuerySkip(r)
        \/ QueryProceed(r)
        \/ ExportThenUpdate(r)
        \/ ExportThenCreate(r)
        \/ CreatePage(r)
        \/ GetChildren(r)
        \/ DeleteBlock(r)
        \/ AppendBatch(r)
        \/ UpdateProp(r)
        \/ AppendFails(r)
        \/ CallFails(r)

SpecSync == InitSync /\ [][NextSync]_vars

\* A page holding the converted content of the doc's current version.
SyncedPage(id, doc, firstId) ==
    PageOf(id, doc.id, <<formatDateForNotion(doc.modifiedTime)>>,
           markdownToNotionBlocks(doc.markdown), firstId)

\* A doc's page before the worker runs: none, one of an older version (with
\* or without a stored date), or one in sync with the doc.
WorkerPages(id, doc, firstId) ==
    {<<>>, <<SyncedPage(id, doc, firstId)>>}
        \cup {<<PageOf(id, doc.id, st, markdownToNotionBlocks(DocOf(m, "old")), firstId)>> :
                st \in {<<>>, <<"t0">>}, m \in 1..2}

\* One doc of 0..2 blocks, or two docs of one block.
WorkerWorlds ==
    UNION {{[drive |-> <<d1>>, pages |-> <<OtherPage>> \o p1, nextId |-> 10] :
                p1 \in WorkerPages(3, d1, 4)} :
            d1 \in {DriveDoc("d1", "t1", DocOf(n, "new")) : n \in 0..2}}
    \cup
    {[drive |-> <<DriveDoc("d1", "t1", DocOf(1, "new")),
                  DriveDoc("d2", "t2", DocOf(1, "new"))>>,
      pages |-> <<OtherPage>> \o p1 \o p2, nextId |-> 10] :
        p1 \in WorkerPages(3, DriveDoc("d1", "t1", DocOf(1, "new")), 4),
        p2 \in {<<>>, <<SyncedPage(7, DriveDoc("d2", "t2", DocOf(1, "new")), 8)>>}}

\* The deployed worker: no request yet, no run yet.
InitWorker ==
    /\ \E w \in WorkerWorlds :
            /\ drive = w.drive
            /\ pages = w.pages
            /\ nextId = w.nextId
    /\ failsLeft = MaxFails
    /\ run = [r \in RunIds |-> OffFrame]
    /\ http = NoRequest
    /\ lst = NoListing
    /\ root = <<>>
    /\ idx = 0
    /\ emitted = <<>>
    /\ blocks = <<>>
    /\ cpc = "off"

RunStep(r) ==
    \/ RunStart(r)
    \/ RunStartThrows(r)
    \/ QuerySkip(r)
    \/ QueryProceed(r)
    \/ ExportThenUpdate(r)
    \/ ExportThenCreate(r)
    \/ CreatePage(r)
    \/ GetChildren(r)
    \/ DeleteBlock(r)
    \/ DeleteGone(r)
    \/ AppendBatch(r)
    \/ UpdateProp(r)
    \/ AppendFails(r)
    \/ CallFails(r)

NextWorker ==
    \/ Request
    \/ FetchInfo
    \/ FetchToken
    \/ FetchListDrives
    \/ FetchGetDrive
    \/ FetchGetDriveAdmin
    \/ FetchSync
    \/ FetchSyncReturns
    \/ FetchSyncThrows
    \/ Scheduled
    \/ \E r \in RunIds : RunStep(r)

SpecWorker == InitWorker /\ [][NextWorker]_vars

-----------------------------------------------------------------------------
(* The converter as a state machine: one step per root child *)

InitConv ==
    /\ root \in RootDocs
    /\ idx = 0
    /\ emitted = <<>>
    /\ blocks = <<>>
    /\ cpc = "walk"
    /\ drive = <<>>
    /\ pages = <<>>
    /\ nextId = 1
    /\ failsLeft = 0
    /\ run = [r \in RunIds |-> OffFrame]
    /\ http = NoRequest
    /\ lst = NoListing

pushAllInFront(bs, out) == out \o bs

\* `blocks.push(...out)`: the returned blocks go after those already there.
pushAll(bs, out) == bs \o out

\* Loop body, first two branches: blocks.push(...processBlock(node)).
WalkBlock ==
    /\ cpc = "walk"
    /\ idx < Len(root)
    /\ root[idx + 1].type \in WalkedTypes
    /\ LET out == walkNode(root[idx + 1])
       IN  /\ blocks' = pushAll(blocks, out)
           /\ emitted' = Append(emitted, out)
    /\ idx' = idx + 1
    /\ UNCHANGED <<root, cpc, syncVars>>

\* Loop body, third branch and the implicit fall-through: nothing is pushed.
WalkSkip ==
    /\ cpc = "walk"
    /\ idx < Len(root)
    /\ root[idx + 1].type \notin WalkedTypes
    /\ emitted' = Append(emitted, walkNode(root[idx + 1]))
    /\ idx' = idx + 1
    /\ UNCHANGED <<root, blocks, cpc, syncVars>>

\* `return blocks`
WalkReturn ==
    /\ cpc = "walk"
    /\ idx = Len(root)
    /\ cpc' = "done"
    /\ UNCHANGED <<root, idx, emitted, blocks, syncVars>>

NextConv == WalkBlock \/ WalkSkip \/ WalkReturn

SpecConv == InitConv /\ [][NextConv]_vars

-----------------------------------------------------------------------------
(* Properties of the converter, checked under SpecConv *)

\* Root children the walker has visited.
Visited == 1..idx

HasSpans(b) == b.type # "divider"

\* C1: every non-divider block the converter returns carries at least one
\* span, and a block whose inline conversion yields no span (a paragraph,
\* heading or blockquote paragraph holding only an image) carries exactly
\* the single-space span with default annotations.
C1_NonEmptySpans ==
    /\ \A k \in 1..Len(blocks) :
            HasSpans(blocks[k]) => Len(blocks[k].rich_text) >= 1
    /\ \A i \in Visited :
            (/\ root[i].type = "blockquote"
             /\ \A k \in 1..Len(root[i].children) :
                    /\ root[i].children[k].type = "paragraph"
                    /\ phrasingToRichText(root[i].children[k].children) = <<>>)
                => emitted[i] = <<[type |-> "quote", rich_text |-> <<SpaceSpan>>]>>

\* C2: an unsupported block-level node (html, definition,
\* footnoteDefinition) directly under the root produces exactly one blank
\* paragraph at its position: a root made only of such nodes gives as many
\* blocks as it has nodes.
C2_UnsupportedPlaceholder ==
    /\ \A i \in Visited :
            root[i].type \in UnsupportedTypes => emitted[i] = <<BlankParagraph>>
    /\ (cpc = "done" /\ \A i \in 1..Len(root) : root[i].type \in UnsupportedTypes)
            => blocks = [i \in 1..Len(root) |-> BlankParagraph]

AllParagraphs(q) ==
    /\ Len(q.children) >= 1
    /\ \A k \in 1..Len(q.children) : q.children[k].type = "paragraph"

RECURSIVE JoinedSpans(_)
\* spans(P1) + newline + spans(P2) + ... + spans(Pn), for n >= 1 paragraphs.
JoinedSpans(paras) ==
    IF Len(paras) = 1 THEN phrasingToRichText(paras[1].children)
    ELSE phrasingToRichText(paras[1].children) \o <<NewlineSpan>>
            \o JoinedSpans(Tail(paras))

\* C3: a blockquote of n >= 1 paragraphs maps to exactly one quote block
\* whose spans are the paragraphs' spans with exactly one newline span
\* between consecutive paragraphs and none after the last.
C3_BlockquoteFlattening ==
    \A i \in Visited :
        (root[i].type = "blockquote" /\ AllParagraphs(root[i]))
            => emitted[i] = <<[type |-> "quote",
                               rich_text |-> JoinedSpans(root[i].children)]>>

\* A blockquote of two or more paragraphs has been converted and its quote
\* block holds a newline span between spans of text.
C3_Witness ==
    \E i \in Visited :
        /\ root[i].type = "blockquote"
        /\ AllParagraphs(root[i])
        /\ Len(root[i].children) >= 2
        /\ Len(emitted[i]) = 1
        /\ \E k \in 2..(Len(emitted[i][1].rich_text) - 1) :
                /\ emitted[i][1].rich_text[k] = NewlineSpan
                /\ emitted[i][1].rich_text[k - 1].content = "a"

\* The span list of the first block a node maps to (none when it maps to
\* no block or to a block without spans).
FirstSpans(node) ==
    LET inner == processBlock(node)
    IN  IF Len(inner) > 0 /\ HasSpans(inner[1]) THEN inner[1].rich_text ELSE <<>>

\* C4: for every non-paragraph child of a blockquote (first, middle or
\* last), the span list of the first block the child maps to, whatever
\* that block's type, appears in the quote block's span list.
C4_NonParagraphChildSpliced ==
    \A i \in Visited :
        root[i].type = "blockquote" =>
            \A k \in 1..Len(root[i].children) :
                root[i].children[k].type # "paragraph" =>
                    /\ Len(emitted[i]) = 1
                    /\ IsInfix(FirstSpans(root[i].children[k]),
                               emitted[i][1].rich_text)

\* C10: a heading maps to exactly one block whose type depends only on
\* its depth: 1 -> heading_1, 2 -> heading_2, 3..6 -> heading_3.
C10_HeadingClamp ==
    \A i \in Visited :
        root[i].type = "heading" =>
            /\ Len(emitted[i]) = 1
            /\ root[i].depth = 1 => emitted[i][1].type = "heading_1"
            /\ root[i].depth = 2 => emitted[i][1].type = "heading_2"
            /\ root[i].depth \in 3..6 => emitted[i][1].type = "heading_3"

\* Headings of depth 1, and of depth 5, have been converted.
C10_Witness ==
    \E i \in Visited :
        /\ root[i].type = "heading"
        /\ root[i].depth = 5
        /\ emitted[i][1].type = "heading_3"
        /\ \E j \in Visited :
                /\ root[j].type = "heading"
                /\ root[j].depth = 1
                /\ emitted[j][1].type = "heading_1"

\* C11: the spans of a list-item block come only from the item's first
\* child, and only when that child is a paragraph; the later children
\* (paragraphs, code, nested lists) contribute nothing, and an item whose
\* first child is not a paragraph, or that has no child, carries the
\* single-space span, whatever paragraphs follow.
C11_ListItemFirstParagraph ==
    \A i \in Visited :
        root[i].type = "list" =>
            \A k \in 1..Len(root[i].children) :
                LET kids == root[i].children[k].children
                    fromFirst == phrasingToRichText(kids[1].children)
                    spans == emitted[i][k].rich_text
                IN  IF kids # <<>> /\ kids[1].type = "paragraph" /\ fromFirst # <<>>
                    THEN spans = fromFirst
                    ELSE spans = <<SpaceSpan>>

\* A list has been converted whose first item holds two paragraphs and
\* whose second item holds a code block followed by a paragraph.
C11_Witness ==
    \E i \in Visited :
        /\ root[i].type = "list"
        /\ Len(root[i].children) = 2
        /\ root[i].children[1].children
                = <<Paragraph(<<Text("a")>>), Paragraph(<<Text("b")>>)>>
        /\ root[i].children[2].children
                = <<Code("x", <<>>), Paragraph(<<Text("b")>>)>>
        /\ emitted[i][1].rich_text = <<PlainSpan("a")>>
        /\ emitted[i][2].rich_text = <<SpaceSpan>>

\* C12: a list of k items maps to exactly k blocks, one per item in item
\* order, all numbered_list_item when the list is ordered and all
\* bulleted_list_item otherwise; a list nested in an item adds no block,
\* and a list without items maps to no block.
C12_ListItemBlocks ==
    \A i \in Visited :
        root[i].type = "list" =>
            /\ Len(emitted[i]) = Len(root[i].children)
            /\ \A k \in 1..Len(emitted[i]) :
                    /\ root[i].ordered => emitted[i][k].type = "numbered_list_item"
                    /\ ~root[i].ordered => emitted[i][k].type = "bulleted_list_item"
                    /\ emitted[i][k].rich_text
                            = padIfEmpty(listItemToRichText(root[i].children[k]))

\* An ordered list of three items, the first holding a nested list of two
\* items, has been converted to three numbered blocks; an empty list has
\* been converted to nothing.
C12_Witness ==
    /\ \E i \in Visited :
            /\ root[i].type = "list"
            /\ root[i].ordered
            /\ Len(root[i].children) = 3
            /\ \E c \in 1..Len(root[i].children[1].children) :
                    /\ root[i].children[1].children[c].type = "list"
                    /\ Len(root[i].children[1].children[c].children) = 2
            /\ Len(emitted[i]) = 3
            /\ emitted[i][1].type = "numbered_list_item"
    /\ \E i \in Visited :
            /\ root[i].type = "list"
            /\ root[i].children = <<>>
            /\ emitted[i] = <<>>

RECURSIVE SepAfterEach(_, _)
\* The strings of ss, each followed by sep.
SepAfterEach(ss, sep) ==
    IF ss = <<>> THEN "" ELSE Head(ss) \o sep \o SepAfterEach(Tail(ss), sep)

\* The plain text of the cells of row r of a table.
CellTexts(table, r) ==
    [c \in 1..Len(table.children[r].children) |->
        getPhrasingText(table.children[r].children[c].children)]

\* C13: a table maps to exactly one paragraph block with exactly one plain
\* span; its content is the rows joined by "\n", each row being its cells'
\* plain text joined by " | ", and it is " " when that text is empty.
C13_TableFlattening ==
    \A i \in Visited :
        root[i].type = "table" =>
            /\ Len(emitted[i]) = 1
            /\ emitted[i][1].type = "paragraph"
            /\ Len(emitted[i][1].rich_text) = 1
            /\ LET span == emitted[i][1].rich_text[1]
                   rowTexts == [r \in 1..Len(root[i].children) |->
                                   LET cells == CellTexts(root[i], r)
                                       withSep == SepAfterEach(cells, " | ")
                                   IN  IF cells = <<>> THEN ""
                                       ELSE SubSeq(withSep, 1, Len(withSep) - 3)]
                   joined == SepAfterEach(rowTexts, "\n")
                   text == IF rowTexts = <<>> THEN ""
                           ELSE SubSeq(joined, 1, Len(joined) - 1)
               IN  /\ span.annotations = DefaultAnnotations
                   /\ span.link = <<>>
                   /\ span.content = IF text = "" THEN " " ELSE text

\* A table of two rows of two cells has been converted to "a | b\nc | d",
\* and a table without rows to " ".
C13_Witness ==
    /\ \E i \in Visited :
            /\ root[i].type = "table"
            /\ Len(root[i].children) = 2
            /\ emitted[i] = <<[type |-> "paragraph",
                               rich_text |-> <<PlainSpan("a | b\nc | d")>>]>>
    /\ \E i \in Visited :
            /\ root[i] = Table(<<>>)
            /\ emitted[i][1].rich_text = <<SpaceSpan>>

RECURSIVE ExpectedSpans(_, _, _)
\* The spans of a list of inline nodes read from the outside in: ann holds
\* the flags of the wrappers passed on the way down, link the URL of the
\* outermost link passed.
ExpectedSpans(nodes, ann, link) ==
    IF nodes = <<>> THEN <<>>
    ELSE LET node == Head(nodes)
             leaf(content, a) ==
                <<[type |-> "text", content |-> content, link |-> link,
                   annotations |-> a]>>
             here ==
                CASE node.type = "text" -> leaf(node.value, ann)
                  [] node.type = "inlineCode" ->
                        leaf(node.value, [ann EXCEPT !.code = TRUE])
                  [] node.type = "break" -> leaf("\n", ann)
                  [] node.type = "strong" ->
                        ExpectedSpans(node.children, [ann EXCEPT !.bold = TRUE], link)
                  [] node.type = "emphasis" ->
                        ExpectedSpans(node.children, [ann EXCEPT !.italic = TRUE], link)
                  [] node.type = "delete" ->
                        ExpectedSpans(node.children,
                                      [ann EXCEPT !.strikethrough = TRUE], link)
                  [] node.type = "link" ->
                        ExpectedSpans(node.children, ann,
                                      IF link = <<>> THEN <<node.url>> ELSE link)
                  [] OTHER -> <<>>
         IN  here \o ExpectedSpans(Tail(nodes), ann, link)

\* The spans of a visited paragraph, without the padding of an empty result.
SpansOf(i) ==
    IF phrasingToRichText(root[i].children) = <<>> THEN <<>>
    ELSE emitted[i][1].rich_text

IsWrapper(node) == node.type \in {"strong", "emphasis", "delete", "link"}

SameWrapper(a, b) ==
    /\ a.type = b.type
    /\ a.type = "link" => a.url = b.url

\* C14: annotation flags only accumulate through nesting: a span has bold
\* (italic, strikethrough) true exactly when a strong (emphasis, delete)
\* wrapper is among its ancestors and code true exactly when it comes from
\* inlineCode, whatever wrappers (links included) lie in between; and a
\* wrapper applied twice gives the spans of the wrapper applied once.
C14_AnnotationsAccumulate ==
    \A i \in Visited :
        root[i].type = "paragraph" =>
            LET kids == root[i].children
                expected == ExpectedSpans(kids, DefaultAnnotations, <<>>)
            IN  /\ Len(SpansOf(i)) = Len(expected)
                /\ \A k \in 1..Len(expected) :
                        SpansOf(i)[k].annotations = expected[k].annotations
                /\ (/\ Len(kids) = 1
                    /\ IsWrapper(kids[1])
                    /\ Len(kids[1].children) = 1
                    /\ IsWrapper(kids[1].children[1])
                    /\ SameWrapper(kids[1], kids[1].children[1]))
                        => SpansOf(i) = phrasingToRichText(kids[1].children)

\* The paragraph **_~~a~~_** has been converted to one span that is bold,
\* italic and struck through, or the paragraph of strong in strong around
\* inline code to one span that is bold and code.
C14_Witness ==
    /\ cpc = "done"
    /\ \/ /\ root = <<Paragraph(<<Strong(<<Emphasis(<<Delete(<<Text("a")>>)>>)>>)>>)>>
          /\ blocks[1].rich_text =
                <<[PlainSpan("a") EXCEPT
                     !.annotations = [DefaultAnnotations EXCEPT
                                        !.bold = TRUE, !.italic = TRUE,
                                        !.strikethrough = TRUE]]>>
       \/ /\ root = <<Paragraph(<<Strong(<<Strong(<<InlineCode("c")>>)>>)>>)>>
          /\ blocks[1].rich_text =
                <<[PlainSpan("c") EXCEPT
                     !.annotations = [DefaultAnnotations EXCEPT
                                        !.bold = TRUE, !.code = TRUE]]>>

\* C15: a link sets its URL on every span of its children and changes
\* neither their content, their order nor their annotations; formatting
\* wrappers inside or outside the link keep the URL: every span carries the
\* URL of the link around it, and no URL when there is none.
C15_LinkKeepsSpans ==
    \A i \in Visited :
        root[i].type = "paragraph" =>
            LET kids == root[i].children
                expected == ExpectedSpans(kids, DefaultAnnotations, <<>>)
            IN  /\ Len(SpansOf(i)) = Len(expected)
                /\ \A k \in 1..Len(expected) :
                        /\ SpansOf(i)[k].content = expected[k].content
                        /\ SpansOf(i)[k].link = expected[k].link
                /\ (Len(kids) = 1 /\ kids[1].type = "link") =>
                        LET inner == phrasingToRichText(kids[1].children)
                        IN  /\ Len(SpansOf(i)) = Len(inner)
                            /\ \A k \in 1..Len(inner) :
                                    /\ SpansOf(i)[k].content = inner[k].content
                                    /\ SpansOf(i)[k].annotations = inner[k].annotations
                                    /\ SpansOf(i)[k].link = <<kids[1].url>>

BoldLinkedSpan(content, url) ==
    [PlainSpan(content) EXCEPT !.annotations.bold = TRUE, !.link = <<url>>]

\* Bold text inside a link, or a link inside bold, has been converted to a
\* bold span carrying the link's URL.
C15_Witness ==
    /\ cpc = "done"
    /\ \/ root = <<Paragraph(<<Link("u", <<Strong(<<Text("a")>>)>>)>>)>>
       \/ root = <<Paragraph(<<Strong(<<Link("u", <<Text("a")>>)>>)>>)>>
    /\ blocks[1].rich_text = <<BoldLinkedSpan("a", "u")>>

-----------------------------------------------------------------------------
(* Properties of the Notion client and of runSync, checked under SpecSync *)

Positions(tr, op) == {k \in 1..Len(tr) : tr[k].op = op}

HasOp(tr, op) == Positions(tr, op) # {}

\* The blocks a page holds, in order.
BlocksOf(page) == [k \in 1..Len(page.children) |-> page.children[k].block]

\* The k-th chunk of a block sequence.
Chunk(blks, k) ==
    SubSeq(blks, (k - 1) * BLOCKS_PER_REQUEST + 1,
           Min(k * BLOCKS_PER_REQUEST, Len(blks)))

\* C5: updatePage issues its calls in a fixed order: every delete before
\* the first append, the appends chunk by chunk in document order, the
\* update of Drive Modified last and only after all chunks were appended;
\* between the last delete and the first append the page has no children.
C5_UpdateOrder ==
    \A r \in RunIds :
        LET f == run[r]
            tr == f.trace
            n == Len(f.newBlocks)
            appends == Positions(tr, "append")
        IN  f.mode = "update" =>
                /\ \A b \in appends :
                        \A a \in (b + 1)..Len(tr) : tr[a].op # "delete"
                /\ \A k \in 1..Len(f.sent) : f.sent[k] = Chunk(f.newBlocks, k)
                /\ \A a \in Positions(tr, "updateProp") :
                        /\ a = Len(tr)
                        /\ \A b \in appends : tr[b].ok
                        /\ Cardinality(appends) = CeilDiv(n, BLOCKS_PER_REQUEST)
                        /\ BlocksOf(PageById(pages, f.pageId)) = f.newBlocks
                /\ (f.pc = "append" /\ f.off = 0)
                        => PageById(pages, f.pageId).children = <<>>

\* An update of a page that had children stands between its last delete
\* and its first append, with several chunks to append: the page is empty.
C5_Witness ==
    \E r \in RunIds :
        /\ run[r].mode = "update"
        /\ run[r].pc = "append"
        /\ run[r].off = 0
        /\ Len(run[r].all) > CHILDREN_PAGE_SIZE
        /\ Len(run[r].newBlocks) > BLOCKS_PER_REQUEST
        /\ Cardinality(Positions(run[r].trace, "delete")) = Len(run[r].all)
        /\ PageById(pages, run[r].pageId).children = <<>>

C7_Batching ==
    \A r \in RunIds :
        LET f == run[r]
            n == Len(f.newBlocks)
            s == f.sent
            cat == Flatten(s)
        IN  f.mode # "none" =>
                /\ \A k \in 1..Len(s) :
                        Len(s[k]) >= 1 /\ Len(s[k]) <= BLOCKS_PER_REQUEST
                /\ \A k \in 1..(Len(s) - 1) : Len(s[k]) = BLOCKS_PER_REQUEST
                /\ cat = SubSeq(f.newBlocks, 1, Len(cat))
                /\ (n > 0 /\ f.off >= n) =>
                        /\ Len(s) = CeilDiv(n, BLOCKS_PER_REQUEST)
                        /\ cat = f.newBlocks

\* 250 blocks have been sent as batches of 100, 100 and 50.
C7_Witness ==
    \E r \in RunIds :
        /\ Len(run[r].newBlocks) = 250
        /\ run[r].off >= 250
        /\ [k \in 1..Len(run[r].sent) |-> Len(run[r].sent[k])] = <<100, 100, 50>>

C9_UpdateReplaces ==
    \A r \in RunIds :
        LET f == run[r]
        IN  (f.last = "updated" /\ f.mode = "update" /\ f.i = f.cur + 1) =>
              LET page == PageById(pages, f.pageId)
                  d == f.docs[f.cur]
              IN  /\ BlocksOf(page) =
                        markdownToNotionBlocks(exportAsMarkdown(drive, d.id))
                  /\ \A k \in 1..Len(page.children) :
                        \A o \in 1..Len(f.all) : page.children[k].id # f.all[o]
                  /\ page.driveModified = <<d.modifiedTime>>

\* An update has replaced more than two pages of existing children by
\* more than two chunks of new blocks.
C9_Witness ==
    \E r \in RunIds :
        /\ run[r].last = "updated"
        /\ run[r].mode = "update"
        /\ run[r].i = run[r].cur + 1
        /\ Len(run[r].all) > 2 * CHILDREN_PAGE_SIZE
        /\ Len(run[r].newBlocks) > 2 * BLOCKS_PER_REQUEST
        /\ Len(PageById(pages, run[r].pageId).children) = Len(run[r].newBlocks)


-----------------------------------------------------------------------------
(* Properties of the worker's handlers, checked under SpecWorker and SpecSync *)

Routes == {"/sync", "/debug-drive", "/debug-drive-list"}

\* C17: a request whose path is none of /sync, /debug-drive and
\* /debug-drive-list is answered with status 200 and the fixed text, and the
\* handler makes no token request and no Drive call and starts no runSync
\* (the only caller of Notion).
C17_InfoResponse ==
    (http.pc # "none" /\ http.path \notin Routes) =>
        /\ http.pc \in {"route", "responded"}
        /\ http.tokenCalls = 0
        /\ http.driveCalls = 0
        /\ run[FetchRun] = OffFrame
        /\ http.pc = "responded" =>
                /\ http.status = 200
                /\ http.contentType = "text/plain"
                /\ http.body.text = InfoText

\* A request for /sync/ has been answered with the fixed text.
C17_Witness ==
    /\ http.pc = "responded"
    /\ http.path = "/sync/"
    /\ http.status = 200
    /\ http.body.text = InfoText

\* Frames of a runSync inside its loop or returned from it.
InLoop(f) == f.pc \notin {"off", "idle", "threw"}

\* C18: a failure while syncing one doc is caught per doc: each doc the
\* loop has left is counted in exactly one of synced, skipped and failed,
\* the loop goes on to every later doc, and on return the three counters
\* add up to the number of listed docs.
C18_FailureIsPerDoc ==
    \A r \in RunIds :
        InLoop(run[r]) =>
            LET f == run[r]
            IN  /\ f.synced + f.skipped + f.failed = f.i - 1
                /\ f.pc = "done" <=> f.i = Len(f.docs) + 1
                /\ f.pc = "done" => f.synced + f.skipped + f.failed = Len(f.docs)

\* A run over two docs has returned after the first doc failed and the
\* second was synced or skipped.
C18_Witness ==
    \E r \in RunIds :
        /\ run[r].pc = "done"
        /\ Len(run[r].docs) = 2
        /\ run[r].failed = 1
        /\ run[r].last # "failed"
        /\ run[r].synced + run[r].skipped = 1

\* The run has just skipped the doc at position cur of its list.
JustSkipped(f) ==
    /\ InLoop(f)
    /\ f.last = "skipped"
    /\ f.cur = f.i - 1

\* The run is not between the query and the end of a doc.
BetweenDocs(f) == f.pc \in {"off", "idle", "threw", "done", "query"}

\* The pages of the database filed under a Drive file ID.
PagesOf(driveFileId) == {k \in 1..Len(pages) : pages[k].driveFileId = driveFileId}

\* The page holds exactly the converted content of the doc.
PageComplete(page, fileId) ==
    BlocksOf(page) = markdownToNotionBlocks(exportAsMarkdown(drive, fileId))

\* C19: re-running recovers from every failure: a doc is skipped (its
\* page's stored Drive Modified equals its modifiedTime) only when the page
\* holds the complete converted content of the doc, no other run being at
\* work on a doc at that moment.
C19_RerunRecovers ==
    \A r \in RunIds :
        (/\ JustSkipped(run[r])
         /\ \A o \in RunIds \ {r} : BetweenDocs(run[o]))
            => \A k \in PagesOf(run[r].docs[run[r].cur].id) :
                    PageComplete(pages[k], run[r].docs[run[r].cur].id)

\* C20: after any sequence of runs, overlapping or not, the database holds
\* at most one page per Drive file ID, and no page holds the converted
\* content of its doc twice.
C20_OnePagePerFile ==
    \A d \in 1..Len(drive) :
        /\ Cardinality(PagesOf(drive[d].id)) <= 1
        /\ \A k \in PagesOf(drive[d].id) :
                LET content == markdownToNotionBlocks(drive[d].markdown)
                IN  content # <<>> =>
                        ~IsInfix(content \o content, BlocksOf(pages[k]))

\* The remote calls among the events logged for a doc.
RemoteCalls(tr) == SelectSeq(tr, LAMBDA e : e.op # "skip")

-----------------------------------------------------------------------------
(* The two traversals of inline nodes agree, checked under SpecConv *)

RECURSIVE ContentOf(_)
\* The contents of a list of spans, concatenated in order.
ContentOf(spans) ==
    IF spans = <<>> THEN "" ELSE Head(spans).content \o ContentOf(Tail(spans))

\* The root is a paragraph followed by a table of one cell, both holding
\* the same inline nodes.
SameNodesTwice ==
    /\ Len(root) = 2
    /\ root[1].type = "paragraph"
    /\ root[2].type = "table"
    /\ Len(root[2].children) = 1
    /\ Len(root[2].children[1].children) = 1
    /\ root[2].children[1].children[1].children = root[1].children

\* C23: the contents of the spans phrasingToRichText returns, concatenated
\* in order, are the string getPhrasingText returns for the same nodes: for
\* every paragraph, and for a paragraph and a table cell holding the same
\* nodes (the cell's text being what getPhrasingText returned).
C23_SpansMatchText ==
    /\ \A i \in Visited :
            root[i].type = "paragraph" =>
                ContentOf(SpansOf(i)) = getPhrasingText(root[i].children)
    /\ (SameNodesTwice /\ idx = 2) =>
            LET text == ContentOf(SpansOf(1))
            IN  emitted[2][1].rich_text[1].content = IF text = "" THEN " " ELSE text

\* A paragraph and a table cell both holding strong text followed by a
\* break, inside a link, have been converted; the cell's text is "a\n".
C23_Witness ==
    /\ cpc = "done"
    /\ SameNodesTwice
    /\ root[1].children = <<Link("u", <<Strong(<<Text("a"), Break>>)>>)>>
    /\ Len(emitted[1][1].rich_text) = 2
    /\ emitted[2][1].rich_text[1].content = "a\n"

-----------------------------------------------------------------------------
(* Properties of the Drive traversal, checked under SpecList *)

RECURSIVE ExpectedDocs(_, _)
\* The Google Docs under a folder, depth first: a folder's docs stand at
\* the folder's place in its parent's listing.
ExpectedDocs(tree, folderId) ==
    Flatten([k \in 1..Len(tree[folderId]) |->
                LET file == tree[folderId][k]
                IN  CASE file.mimeType = GOOGLE_DOC_MIME ->
                            <<[id |-> file.id, name |-> file.name,
                               modifiedTime |-> IF file.modifiedTime = <<>> THEN ""
                                                ELSE file.modifiedTime[1]]>>
                      [] file.mimeType = FOLDER_MIME -> ExpectedDocs(tree, file.id)
                      [] OTHER -> <<>>])

RECURSIVE ReachableFolders(_, _)
\* The folders reachable from a folder through folders, itself included.
ReachableFolders(tree, folderId) ==
    {folderId} \cup
        UNION {ReachableFolders(tree, tree[folderId][k].id) :
                k \in {j \in 1..Len(tree[folderId]) :
                            tree[folderId][j].mimeType = FOLDER_MIME}}

\* The requests made for a folder, in the order they were made.
RequestsFor(folderId) == SelectSeq(lst.requests, LAMBDA q : q[1] = folderId)

\* Every page of the folder, first to last, requested once.
AllPagesRequested(folderId) ==
    LET n == Len(PagesOfFolder(lst.tree[folderId], lst.pageSize, lst.emptyFirst))
    IN  RequestsFor(folderId) =
            [k \in 1..n |-> <<folderId, IF k = 1 THEN <<>> ELSE <<k>>>>]

IsPrefix(a, b) == Len(a) <= Len(b) /\ a = SubSeq(b, 1, Len(a))

ListingExact ==
    lst.pc \in {"run", "done", "threw"} =>
        LET expected == ExpectedDocs(lst.tree, "root")
            reachable == ReachableFolders(lst.tree, "root")
        IN  /\ IsPrefix(lst.results, expected)
            /\ \A k \in 1..Len(lst.results) : lst.results[k].id \notin {"s", "f1", "f2"}
            /\ \A k \in 1..Len(lst.requests) : lst.requests[k][1] \in reachable
            /\ lst.pc = "done" =>
                    /\ lst.results = expected
                    /\ \A f \in reachable : AllPagesRequested(f)

\* C21: on a finite folder tree with finite pagination listAllGoogleDocs
\* terminates, and it returns exactly the Google Docs reachable from the
\* root through folders, once per listing they appear in, depth first; no
\* file of another mime type appears, and every page of every reachable
\* folder has been requested. (A listFiles that throws ends the listing
\* without a result.)
C21_ListingTerminatesExact ==
    /\ []ListingExact
    /\ <>(lst.pc \in {"done", "threw"})

\* A listing has returned on a tree three folders deep, one file per page,
\* with doc b under two folders: a, d, b, b.
C21_Witness ==
    /\ lst.pc = "done"
    /\ lst.pageSize = 1
    /\ lst.tree = [root |-> <<FolderF1, DocB>>, f1 |-> <<DocA, FolderF2>>,
                   f2 |-> <<Sheet, DocD, DocB>>]
    /\ [k \in 1..Len(lst.results) |-> lst.results[k].id] = <<"a", "d", "b", "b">>
    /\ Len(lst.requests) >= 7

=============================================================================
